---- MODULE Spec2Model ----
(***************************************************************************)
(* State-machine model of src/src/server.rs: GSIServer (install,           *)
(* listener registration, run), the HTTP task run_server with its          *)
(* handle_update handler, the dispatch loop spawned by run, the unbounded  *)
(* mpsc channel between them, and ServerHandle::abort.                     *)
(***************************************************************************)
EXTENDS Integers, Sequences, FiniteSets, TLC

\* ------------------------------------------------------------------ bounds
MaxRequests == 2
MaxListeners == 2

Requests == 1..MaxRequests
NoEvent == 0
Port == 3000

\* The game sends a new snapshot with every POST: the r-th request carries the
\* r-th snapshot.
Snapshot(r) == r

\* What the body of request r can be on the wire: the JSON text of its Event,
\* or text that is not an Event.
Bodies(r) == {[json |-> TRUE, val |-> Snapshot(r)],
              [json |-> FALSE, val |-> NoEvent]}

VARIABLES
    srvPc,            \* position of the owner: new, inside run, running, aborting
    port,             \* GSIServer.port
    installed,        \* GSIServer.installed
    listeners,        \* GSIServer.listeners (ids in registration order)
    async_listeners,  \* GSIServer.async_listeners (ids in registration order)
    writes,           \* number of times the installer wrote the artifact
    lastInstall,      \* the latest install / install_into call: [ret, wrote]
    channel,          \* run has created the channel
    queue,            \* items in the unbounded channel, oldest first
    http,             \* run_server task: none, spawned, serving, failed, stopped
    reqs,             \* per request: position, body, decoded event, response
    loopPc,           \* dispatch task: none, recv, sync, async, done, cancelled
    loopIdx,          \* index of the listener being executed
    yielded,          \* the dispatch task is suspended at an .await
    cur,              \* the event bound by `while let Some(event)`
    log,              \* listener invocations, in the order they were made
    pushed,           \* events whose send returned Ok, in completion order
    popped,           \* events returned by receiver.recv(), in order
    abortAt           \* events popped when abort found the loop inside an event, else 0

vars == <<srvPc, port, installed, listeners, async_listeners, writes,
          lastInstall, channel, queue, http, reqs, loopPc, loopIdx,
          yielded, cur, log, pushed, popped, abortAt>>

serverVars == <<port, installed, listeners, async_listeners>>
installVars == <<writes, lastInstall>>
loopVars == <<loopPc, loopIdx, yielded, cur, log, popped>>

\* ------------------------------------------------------------- pure helpers

\* Event::clone
Clone(e) == e

Decode_Lenient(b) == [ok |-> TRUE, event |-> b.val]

\* Json<Event> extractor: the body decodes into an Event or is rejected.
Decode(b) == IF b.json THEN [ok |-> TRUE, event |-> b.val]
                       ELSE [ok |-> FALSE, event |-> NoEvent]

\* Json(body) as a response body.
Encode(e) == [json |-> TRUE, val |-> e]

NoBody == [json |-> FALSE, val |-> NoEvent]

\* after: the requests whose 200 response had been written when this request's
\* connection was accepted (history, for the client's view of the order).
IdleReq == [pc |-> "idle", body |-> NoBody, event |-> NoEvent,
            sent |-> FALSE, status |-> 0, resp |-> NoBody, after |-> {}]

\* ServerHandle::abort has executed server_handle.abort()
AbortRequested == srvPc \in {"abort_http", "aborted"}

\* ServerHandle::abort has executed http_handle.shutdown()
ShutdownSignalled == srvPc = "aborted"

\* The receiver is owned by the dispatch task and dropped when the task ends.
ReceiverDropped == loopPc \in {"done", "cancelled"}

\* A request task between accept and the end of its connection.
InFlight(r) == reqs[r].pc \in {"accepted", "handled"}

\* Sender endpoints: run's local, the router state held by run_server, and the
\* clone held by every connection being served.
SenderExists ==
    \/ srvPc = "run_http"
    \/ http \in {"spawned", "serving"}
    \/ \E r \in Requests : InFlight(r)

\* ------------------------------------------------------------- installation

\* GSIConfig::install_into(cfg_folder, port): writes the artifact or fails.
ConfigInstallInto(w, ok) ==
    IF ok THEN [ret |-> "ok", writes |-> w + 1]
          ELSE [ret |-> "err", writes |-> w]

\* install_dir::find_cfg_folder(): the folder is found or it is not.
FindCfgFolder(found) == IF found THEN "ok" ELSE "err"

InstallInto_FlagBeforeWrite(inst, w, ok) ==
    IF ~inst
    THEN LET c == ConfigInstallInto(w, ok) IN
         [installed |-> TRUE, writes |-> c.writes, ret |-> c.ret]
    ELSE [installed |-> inst, writes |-> w, ret |-> "ok"]

InstallInto_NoGuard(inst, w, ok) ==
    LET c == ConfigInstallInto(w, ok) IN
    IF c.ret = "err"
    THEN [installed |-> inst, writes |-> c.writes, ret |-> "err"]
    ELSE [installed |-> TRUE, writes |-> c.writes, ret |-> "ok"]

\* GSIServer::install_into on a server whose flag is inst, with w writes so far.
InstallInto(inst, w, ok) ==
    IF ~inst
    THEN LET c == ConfigInstallInto(w, ok) IN
         IF c.ret = "err"
         THEN [installed |-> inst, writes |-> c.writes, ret |-> "err"]
         ELSE [installed |-> TRUE, writes |-> c.writes, ret |-> "ok"]
    ELSE [installed |-> inst, writes |-> w, ret |-> "ok"]

\* GSIServer::install
InstallOp(inst, w, found, ok) ==
    IF ~inst
    THEN IF FindCfgFolder(found) = "err"
         THEN [installed |-> inst, writes |-> w, ret |-> "err"]
         ELSE LET r == InstallInto(inst, w, ok) IN
              IF r.ret = "err" THEN r
              ELSE [installed |-> TRUE, writes |-> r.writes, ret |-> "ok"]
    ELSE [installed |-> inst, writes |-> w, ret |-> "ok"]

NoCall == [ret |-> "none", wrote |-> FALSE]

CallRecord(r) == [ret |-> r.ret, wrote |-> r.writes # writes]

\* ------------------------------------------------------------------- Init

Init ==
    /\ srvPc = "new"
    /\ port = Port
    /\ installed = FALSE
    /\ listeners = <<>>
    /\ async_listeners = <<>>
    /\ writes = 0
    /\ lastInstall = NoCall
    /\ channel = FALSE
    /\ queue = <<>>
    /\ http = "none"
    /\ reqs = [r \in Requests |-> IdleReq]
    /\ loopPc = "none"
    /\ loopIdx = 0
    /\ yielded = FALSE
    /\ cur = NoEvent
    /\ log = <<>>
    /\ pushed = <<>>
    /\ popped = <<>>
    /\ abortAt = 0

\* ------------------------------------------------- GSIServer, before run

Install ==
    /\ srvPc = "new"
    /\ \E found \in BOOLEAN, ok \in BOOLEAN :
         LET r == InstallOp(installed, writes, found, ok) IN
         /\ installed' = r.installed
         /\ writes' = r.writes
         /\ lastInstall' = CallRecord(r)
    /\ UNCHANGED <<srvPc, port, listeners, async_listeners, queue, http, reqs,
                   pushed>>
    /\ UNCHANGED loopVars
    /\ UNCHANGED <<channel, abortAt>>

InstallIntoCall ==
    /\ srvPc = "new"
    /\ \E ok \in BOOLEAN :
         LET r == InstallInto(installed, writes, ok) IN
         /\ installed' = r.installed
         /\ writes' = r.writes
         /\ lastInstall' = CallRecord(r)
    /\ UNCHANGED <<srvPc, port, listeners, async_listeners, queue, http, reqs,
                   pushed>>
    /\ UNCHANGED loopVars
    /\ UNCHANGED <<channel, abortAt>>

\* Listener ids are handed out in registration order.
NextListenerId == Len(listeners) + Len(async_listeners) + 1

AddEventListener_Prepends ==
    /\ srvPc = "new"
    /\ NextListenerId <= MaxListeners
    /\ listeners' = <<NextListenerId>> \o listeners
    /\ UNCHANGED <<srvPc, port, installed, async_listeners, queue, http, reqs,
                   pushed>>
    /\ UNCHANGED installVars
    /\ UNCHANGED loopVars
    /\ UNCHANGED <<channel, abortAt>>

\* lines 87-92: self.listeners.push(Box::new(cb))
AddEventListener ==
    /\ srvPc = "new"
    /\ NextListenerId <= MaxListeners
    /\ listeners' = Append(listeners, NextListenerId)
    /\ UNCHANGED <<srvPc, port, installed, async_listeners, queue, http, reqs,
                   pushed>>
    /\ UNCHANGED installVars
    /\ UNCHANGED loopVars
    /\ UNCHANGED <<channel, abortAt>>

\* lines 96-101: self.async_listeners.push(Box::new(..))
AddAsyncEventListener ==
    /\ srvPc = "new"
    /\ NextListenerId <= MaxListeners
    /\ async_listeners' = Append(async_listeners, NextListenerId)
    /\ UNCHANGED <<srvPc, port, installed, listeners, queue, http, reqs,
                   pushed>>
    /\ UNCHANGED installVars
    /\ UNCHANGED loopVars
    /\ UNCHANGED <<channel, abortAt>>

\* ------------------------------------------------------- GSIServer::run

\* line 108: `self.install()?` returns the error from run, or run goes on.
RunAfterInstall_IgnoresError(ret) == "run_chan"

RunAfterInstall(ret) == IF ret = "err" THEN "run_err" ELSE "run_chan"

\* lines 107-109: install when not yet installed.
RunInstall ==
    /\ srvPc = "new"
    /\ IF ~installed
       THEN \E found \in BOOLEAN, ok \in BOOLEAN :
              LET r == InstallOp(installed, writes, found, ok) IN
              /\ installed' = r.installed
              /\ writes' = r.writes
              /\ lastInstall' = CallRecord(r)
              /\ srvPc' = RunAfterInstall(r.ret)
       ELSE /\ srvPc' = RunAfterInstall("ok")
            /\ UNCHANGED <<installed, writes, lastInstall>>
    /\ UNCHANGED <<port, listeners, async_listeners, queue, http, reqs, pushed>>
    /\ UNCHANGED loopVars
    /\ UNCHANGED <<channel, abortAt>>

\* line 111: mpsc::unbounded_channel()
RunChannel ==
    /\ srvPc = "run_chan"
    /\ srvPc' = "run_http"
    /\ queue' = <<>>
    /\ UNCHANGED <<http, reqs, pushed>>
    /\ UNCHANGED serverVars
    /\ UNCHANGED installVars
    /\ UNCHANGED loopVars
    /\ channel' = TRUE
    /\ UNCHANGED abortAt

\* line 117: tokio::spawn(run_server(addr, sender, http_handle.clone()))
RunSpawnHttp ==
    /\ srvPc = "run_http"
    /\ srvPc' = "run_loop"
    /\ http' = "spawned"
    /\ UNCHANGED <<queue, reqs, pushed>>
    /\ UNCHANGED serverVars
    /\ UNCHANGED installVars
    /\ UNCHANGED loopVars
    /\ UNCHANGED <<channel, abortAt>>

\* lines 120-131: tokio::spawn(async move { ... }).abort_handle()
RunSpawnLoop ==
    /\ srvPc = "run_loop"
    /\ srvPc' = "run_ret"
    /\ loopPc' = "recv"
    /\ yielded' = TRUE
    /\ UNCHANGED <<queue, http, reqs, pushed, loopIdx, cur, log, popped>>
    /\ UNCHANGED serverVars
    /\ UNCHANGED installVars
    /\ UNCHANGED <<channel, abortAt>>

RunReturn_WaitsForBind ==
    /\ srvPc = "run_ret"
    /\ http = "serving"
    /\ srvPc' = "running"
    /\ UNCHANGED <<queue, http, reqs, pushed>>
    /\ UNCHANGED serverVars
    /\ UNCHANGED installVars
    /\ UNCHANGED loopVars
    /\ UNCHANGED <<channel, abortAt>>

\* line 133: Ok(ServerHandle { server_handle, http_handle })
RunReturn ==
    /\ srvPc = "run_ret"
    /\ srvPc' = "running"
    /\ UNCHANGED <<queue, http, reqs, pushed>>
    /\ UNCHANGED serverVars
    /\ UNCHANGED installVars
    /\ UNCHANGED loopVars
    /\ UNCHANGED <<channel, abortAt>>

\* ------------------------------------------------- ServerHandle::abort

\* line 147: self.server_handle.abort()
AbortTask ==
    /\ srvPc = "running"
    /\ srvPc' = "abort_http"
    /\ UNCHANGED <<queue, http, reqs, pushed>>
    /\ UNCHANGED serverVars
    /\ UNCHANGED installVars
    /\ UNCHANGED loopVars
    /\ abortAt' = IF loopPc \in {"sync", "async"} THEN Len(popped) ELSE 0
    /\ UNCHANGED channel

\* line 148: self.http_handle.shutdown()
AbortHttp ==
    /\ srvPc = "abort_http"
    /\ srvPc' = "aborted"
    /\ UNCHANGED <<queue, http, reqs, pushed>>
    /\ UNCHANGED serverVars
    /\ UNCHANGED installVars
    /\ UNCHANGED loopVars
    /\ UNCHANGED <<channel, abortAt>>

\* ------------------------------------------------------------- run_server

\* lines 163-166: Server::bind(addr).handle(handle).serve(..) starts serving.
HttpBind ==
    /\ http = "spawned"
    /\ http' = "serving"
    /\ UNCHANGED <<srvPc, queue, reqs, pushed>>
    /\ UNCHANGED serverVars
    /\ UNCHANGED installVars
    /\ UNCHANGED loopVars
    /\ UNCHANGED <<channel, abortAt>>

\* line 167: bind or serve ended with an error; run_server returns Err(Error::Axum)
\* to its own task and drops the router with its sender.
HttpError ==
    /\ http \in {"spawned", "serving"}
    /\ http' = "failed"
    /\ UNCHANGED <<srvPc, queue, reqs, pushed>>
    /\ UNCHANGED serverVars
    /\ UNCHANGED installVars
    /\ UNCHANGED loopVars
    /\ UNCHANGED <<channel, abortAt>>

\* lines 164-169: the serve future sees the handle's shutdown and returns Ok(()).
HttpShutdown ==
    /\ http = "serving"
    /\ ShutdownSignalled
    /\ http' = "stopped"
    /\ UNCHANGED <<srvPc, queue, reqs, pushed>>
    /\ UNCHANGED serverVars
    /\ UNCHANGED installVars
    /\ UNCHANGED loopVars
    /\ UNCHANGED <<channel, abortAt>>

\* The requests whose client has received a 200 response.
Answered200(rs) ==
    {q \in Requests : rs[q].pc = "responded" /\ rs[q].status = 200}

Accept_IgnoresShutdown(r) ==
    /\ http = "serving"
    /\ reqs[r].pc = "idle"
    /\ \A q \in Requests : q < r => reqs[q].pc # "idle"
    /\ \E b \in Bodies(r) :
         reqs' = [reqs EXCEPT ![r] = [IdleReq EXCEPT !.pc = "accepted",
                                                     !.body = b,
                                                     !.after = Answered200(reqs)]]
    /\ UNCHANGED <<srvPc, queue, http, pushed>>
    /\ UNCHANGED serverVars
    /\ UNCHANGED installVars
    /\ UNCHANGED loopVars
    /\ UNCHANGED <<channel, abortAt>>

\* A connection is accepted and carries a POST / with body b. Request ids are
\* handed out in accept order.
Accept(r) ==
    /\ http = "serving"
    /\ ~ShutdownSignalled
    /\ reqs[r].pc = "idle"
    /\ \A q \in Requests : q < r => reqs[q].pc # "idle"
    /\ \E b \in Bodies(r) :
         reqs' = [reqs EXCEPT ![r] = [IdleReq EXCEPT !.pc = "accepted",
                                                     !.body = b,
                                                     !.after = Answered200(reqs)]]
    /\ UNCHANGED <<srvPc, queue, http, pushed>>
    /\ UNCHANGED serverVars
    /\ UNCHANGED installVars
    /\ UNCHANGED loopVars
    /\ UNCHANGED <<channel, abortAt>>

\* line 175: the Json<Event> extractor rejects the body; the handler never runs.
DecodeReject(r) ==
    /\ reqs[r].pc = "accepted"
    /\ ~Decode(reqs[r].body).ok
    /\ reqs' = [reqs EXCEPT ![r].pc = "rejected", ![r].status = 400]
    /\ UNCHANGED <<srvPc, queue, http, pushed>>
    /\ UNCHANGED serverVars
    /\ UNCHANGED installVars
    /\ UNCHANGED loopVars
    /\ UNCHANGED <<channel, abortAt>>

Send_Prepends(q, e) ==
    IF ReceiverDropped THEN [ok |-> FALSE, queue |-> q]
                       ELSE [ok |-> TRUE, queue |-> <<e>> \o q]

Send_Bounded(q, e) ==
    IF ReceiverDropped \/ Len(q) >= 1 THEN [ok |-> FALSE, queue |-> q]
                                      ELSE [ok |-> TRUE, queue |-> Append(q, e)]

Send_PushesTwice(q, e) ==
    IF ReceiverDropped THEN [ok |-> FALSE, queue |-> q]
                       ELSE [ok |-> TRUE, queue |-> Append(Append(q, e), e)]

Send_IgnoresClosed(q, e) == [ok |-> TRUE, queue |-> Append(q, e)]

\* UnboundedSender::send: fails only when the receiver is gone.
Send(q, e) ==
    IF ReceiverDropped THEN [ok |-> FALSE, queue |-> q]
                       ELSE [ok |-> TRUE, queue |-> Append(q, e)]

Response_AlwaysOk(ok, body) == [status |-> 200, resp |-> Encode(body)]

\* lines 177-183: the response handle_update returns for a send result.
Response(ok, body) ==
    IF ok THEN [status |-> 200, resp |-> Encode(body)]
          ELSE [status |-> 500, resp |-> Encode(body)]

HandleUpdate_RespondsBeforeSend(r) ==
    /\ reqs[r].pc = "accepted"
    /\ Decode(reqs[r].body).ok
    /\ LET body == Decode(reqs[r].body).event
           a == Response(TRUE, body)
       IN reqs' = [reqs EXCEPT ![r].pc = "responded", ![r].event = body,
                               ![r].status = a.status, ![r].resp = a.resp]
    /\ UNCHANGED <<srvPc, http, queue, pushed>>
    /\ UNCHANGED serverVars
    /\ UNCHANGED installVars
    /\ UNCHANGED loopVars
    /\ UNCHANGED <<channel, abortAt>>

\* lines 173-184: handle_update on a body that decoded.
HandleUpdate(r) ==
    /\ reqs[r].pc = "accepted"
    /\ Decode(reqs[r].body).ok
    /\ LET body == Decode(reqs[r].body).event
           s == Send(queue, Clone(body))
           a == Response(s.ok, body)
       IN /\ queue' = s.queue
          /\ pushed' = IF s.ok THEN Append(pushed, Clone(body)) ELSE pushed
          /\ reqs' = [reqs EXCEPT ![r].pc = "handled", ![r].event = body,
                                  ![r].sent = s.ok, ![r].status = a.status,
                                  ![r].resp = a.resp]
    /\ UNCHANGED <<srvPc, http>>
    /\ UNCHANGED serverVars
    /\ UNCHANGED installVars
    /\ UNCHANGED loopVars
    /\ UNCHANGED <<channel, abortAt>>

\* The response is written to the client.
Respond(r) ==
    /\ reqs[r].pc = "handled"
    /\ reqs' = [reqs EXCEPT ![r].pc = "responded"]
    /\ UNCHANGED <<srvPc, queue, http, pushed>>
    /\ UNCHANGED serverVars
    /\ UNCHANGED installVars
    /\ UNCHANGED loopVars
    /\ UNCHANGED <<channel, abortAt>>

\* line 148: shutdown() ends a connection task that is still being served.
Cut(r) ==
    /\ ShutdownSignalled
    /\ InFlight(r)
    /\ reqs' = [reqs EXCEPT ![r].pc = "cut"]
    /\ UNCHANGED <<srvPc, queue, http, pushed>>
    /\ UNCHANGED serverVars
    /\ UNCHANGED installVars
    /\ UNCHANGED loopVars
    /\ UNCHANGED <<channel, abortAt>>

\* ----------------------------------------------------- the dispatch loop
RecvPos == <<"recv", 0>>

FirstPos_AsyncFirst ==
    IF Len(async_listeners) > 0 THEN <<"async", 1>>
    ELSE IF Len(listeners) > 0 THEN <<"sync", 1>>
    ELSE RecvPos

\* lines 122, 126: where the loop body starts for a popped event.
FirstPos ==
    IF Len(listeners) > 0 THEN <<"sync", 1>>
    ELSE IF Len(async_listeners) > 0 THEN <<"async", 1>>
    ELSE RecvPos

AfterSync_SkipsAsync(i) ==
    IF i < Len(listeners) THEN <<"sync", i + 1>> ELSE RecvPos

\* lines 122-126: after listeners[i] has returned.
AfterSync(i) ==
    IF i < Len(listeners) THEN <<"sync", i + 1>>
    ELSE IF Len(async_listeners) > 0 THEN <<"async", 1>>
    ELSE RecvPos

AfterAsync_StopsAfterFirst(j) == RecvPos

AfterAsync_SkipsOne(j) ==
    IF j + 2 <= Len(async_listeners) THEN <<"async", j + 2>> ELSE RecvPos

\* lines 126-129: after async_listeners[j]'s future has completed.
AfterAsync(j) ==
    IF j < Len(async_listeners) THEN <<"async", j + 1>>
    ELSE RecvPos

ListenerAt(pos) ==
    IF pos[1] = "sync" THEN listeners[pos[2]] ELSE async_listeners[pos[2]]

\* lines 123, 127: the loop moves to pos; a listener position calls that
\* listener with a clone of the event e, which is the n-th event popped.
Goto(pos, e, n) ==
    /\ loopPc' = pos[1]
    /\ loopIdx' = pos[2]
    /\ yielded' = FALSE
    /\ cur' = IF pos = RecvPos THEN NoEvent ELSE e
    /\ log' = IF pos = RecvPos THEN log
              ELSE Append(log, [n |-> n, kind |-> pos[1], l |-> ListenerAt(pos),
                                e |-> Clone(e)])

CallListener_SharesEvent(e, m) ==
    [copy |-> IF m THEN NoEvent ELSE e, event |-> IF m THEN NoEvent ELSE e]

\* lines 123, 127: cb(event.clone()) runs to its end. The listener owns the
\* clone it was given and may overwrite it (m); the loop's own event is not
\* reachable from the listener and is what the next listener's clone is made of.
CallListener(e, m) ==
    [copy |-> IF m THEN NoEvent ELSE Clone(e), event |-> e]

\* The task may be polled: it is running, or suspended and not aborted.
CanPoll == yielded => ~AbortRequested

\* line 121: receiver.recv().await yields Some(event).
LoopRecv ==
    /\ loopPc = "recv"
    /\ CanPoll
    /\ queue # <<>>
    /\ queue' = Tail(queue)
    /\ popped' = Append(popped, Head(queue))
    /\ Goto(FirstPos, Head(queue), Len(popped) + 1)
    /\ UNCHANGED <<srvPc, http, reqs, pushed>>
    /\ UNCHANGED serverVars
    /\ UNCHANGED installVars
    /\ UNCHANGED <<channel, abortAt>>

\* line 121: receiver.recv().await returns Pending (nothing queued, or the
\* runtime's cooperative budget is spent) and the task is suspended.
LoopRecvPending ==
    /\ loopPc = "recv"
    /\ ~yielded
    /\ yielded' = TRUE
    /\ UNCHANGED <<srvPc, queue, http, reqs, pushed, loopPc, loopIdx, cur, log,
                   popped>>
    /\ UNCHANGED serverVars
    /\ UNCHANGED installVars
    /\ UNCHANGED <<channel, abortAt>>

LoopEnd_IgnoresQueue ==
    /\ loopPc = "recv"
    /\ CanPoll
    /\ ~SenderExists
    /\ loopPc' = "done"
    /\ yielded' = FALSE
    /\ UNCHANGED <<srvPc, queue, http, reqs, pushed, loopIdx, cur, log, popped>>
    /\ UNCHANGED serverVars
    /\ UNCHANGED installVars
    /\ UNCHANGED <<channel, abortAt>>

\* line 121: recv() yields None once every sender is gone and nothing is queued.
LoopEnd ==
    /\ loopPc = "recv"
    /\ CanPoll
    /\ queue = <<>>
    /\ ~SenderExists
    /\ loopPc' = "done"
    /\ yielded' = FALSE
    /\ UNCHANGED <<srvPc, queue, http, reqs, pushed, loopIdx, cur, log, popped>>
    /\ UNCHANGED serverVars
    /\ UNCHANGED installVars
    /\ UNCHANGED <<channel, abortAt>>

\* line 123: listeners[loopIdx] returns.
SyncReturn ==
    /\ loopPc = "sync"
    /\ \E m \in BOOLEAN :
         Goto(AfterSync(loopIdx), CallListener(cur, m).event, Len(popped))
    /\ UNCHANGED <<srvPc, queue, http, reqs, pushed, popped>>
    /\ UNCHANGED serverVars
    /\ UNCHANGED installVars
    /\ UNCHANGED <<channel, abortAt>>

\* line 127: the future of async_listeners[loopIdx] returns Pending.
AsyncPending ==
    /\ loopPc = "async"
    /\ ~yielded
    /\ yielded' = TRUE
    /\ UNCHANGED <<srvPc, queue, http, reqs, pushed, loopPc, loopIdx, cur, log,
                   popped>>
    /\ UNCHANGED serverVars
    /\ UNCHANGED installVars
    /\ UNCHANGED <<channel, abortAt>>

\* line 127: the future of async_listeners[loopIdx] completes.
AsyncComplete ==
    /\ loopPc = "async"
    /\ CanPoll
    /\ \E m \in BOOLEAN :
         Goto(AfterAsync(loopIdx), CallListener(cur, m).event, Len(popped))
    /\ UNCHANGED <<srvPc, queue, http, reqs, pushed, popped>>
    /\ UNCHANGED serverVars
    /\ UNCHANGED installVars
    /\ UNCHANGED <<channel, abortAt>>

\* line 147: the aborted task is cancelled where it is suspended; its future is
\* dropped, and with it the receiver and whatever is still queued.
LoopCancel ==
    /\ loopPc \in {"recv", "async"}
    /\ yielded
    /\ AbortRequested
    /\ loopPc' = "cancelled"
    /\ queue' = <<>>
    /\ UNCHANGED <<srvPc, http, reqs, pushed, loopIdx, yielded, cur, log, popped>>
    /\ UNCHANGED serverVars
    /\ UNCHANGED installVars
    /\ UNCHANGED <<channel, abortAt>>

\* ------------------------------------------------------ the specification
Next ==
    \/ Install
    \/ InstallIntoCall
    \/ AddEventListener
    \/ AddAsyncEventListener
    \/ RunInstall
    \/ RunChannel
    \/ RunSpawnHttp
    \/ RunSpawnLoop
    \/ RunReturn
    \/ AbortTask
    \/ AbortHttp
    \/ HttpBind
    \/ HttpError
    \/ HttpShutdown
    \/ \E r \in Requests : Accept(r)
    \/ \E r \in Requests : DecodeReject(r)
    \/ \E r \in Requests : HandleUpdate(r)
    \/ \E r \in Requests : Respond(r)
    \/ \E r \in Requests : Cut(r)
    \/ LoopRecv
    \/ LoopRecvPending
    \/ LoopEnd
    \/ SyncReturn
    \/ AsyncPending
    \/ AsyncComplete
    \/ LoopCancel

Spec == Init /\ [][Next]_vars

\* run is straight-line code, so it reaches its second spawn; the runtime keeps
\* polling a task that can make progress, and the listeners return: the loop's
\* pop, a synchronous listener's return, an asynchronous listener's completion
\* and the handler of a decoded request are not postponed forever.
LiveSpec ==
    /\ Spec
    /\ WF_vars(RunSpawnLoop)
    /\ WF_vars(LoopRecv)
    /\ WF_vars(SyncReturn)
    /\ WF_vars(AsyncComplete)
    /\ \A r \in Requests : WF_vars(HandleUpdate(r))

\* What the code and the runtime guarantee without any assumption on the
\* listeners: run and abort are straight-line code, so the second spawn follows
\* the first and the shutdown signal follows the task's abort; the runtime
\* polls a runnable task, recv() returns (an event, Pending or end-of-stream),
\* and a task that is marked aborted and suspended is cancelled. Whether a listener ever returns is up to the
\* listener and is not assumed here.
SchedSpec ==
    /\ Spec
    /\ WF_vars(RunSpawnLoop)
    /\ WF_vars(AbortHttp)
    /\ WF_vars(LoopRecv)
    /\ WF_vars(LoopRecvPending)
    /\ WF_vars(LoopEnd)
    /\ WF_vars(LoopCancel)

\* ------------------------------------------------------------- properties

IsPrefix(a, b) == Len(a) <= Len(b) /\ \A i \in 1..Len(a) : a[i] = b[i]

\* The invocations the loop body makes for one event: every synchronous
\* listener in registration order, then every asynchronous one.
Expected ==
    [i \in 1..(Len(listeners) + Len(async_listeners)) |->
        IF i <= Len(listeners)
        THEN [kind |-> "sync", l |-> listeners[i]]
        ELSE [kind |-> "async", l |-> async_listeners[i - Len(listeners)]]]

\* The invocations logged for the n-th popped event.
LogOf(n) == SelectSeq(log, LAMBDA x : x.n = n)

Called(x) == [kind |-> x.kind, l |-> x.l]

\* C1: for every popped event the listeners invoked so far are an initial part
\* of "all synchronous listeners in registration order, then all asynchronous
\* listeners in registration order", so no asynchronous listener is invoked
\* for an event before every synchronous one has been.
C1_SyncThenAsyncInOrder ==
    \A n \in 1..Len(popped) :
        LET s == LogOf(n) IN
        /\ Len(s) <= Len(Expected)
        /\ \A i \in 1..Len(s) : Called(s[i]) = Expected[i]

C1_Witness ==
    /\ Len(listeners) >= 1
    /\ Len(async_listeners) >= 1
    /\ Len(popped) >= 1
    /\ Len(LogOf(1)) = Len(Expected)

\* C2: the events popped by the loop are an initial part of the events pushed,
\* in push-completion order, and while the receiver lives nothing pushed is
\* lost or merged: popped followed by the queue is exactly what was pushed.
C2_DispatchOrderIsPushOrder ==
    /\ IsPrefix(popped, pushed)
    /\ ~ReceiverDropped => popped \o queue = pushed

C2_Witness ==
    /\ Len(popped) = 2
    /\ popped[1] # popped[2]

AllListeners ==
    {listeners[i] : i \in 1..Len(listeners)}
        \cup {async_listeners[i] : i \in 1..Len(async_listeners)}

\* Every listener has been invoked exactly once for the n-th pushed event.
DeliveredOnce(n) ==
    \A l \in AllListeners :
        Cardinality({i \in 1..Len(log) : log[i].n = n /\ log[i].l = l}) = 1

\* No listener is invoked for anything but a pushed event, nor twice for one.
OnlyPushedEvents ==
    /\ \A i \in 1..Len(log) :
          /\ log[i].n \in 1..Len(pushed)
          /\ log[i].e = pushed[log[i].n]
          /\ log[i].l \in AllListeners
    /\ \A i, j \in 1..Len(log) :
          (log[i].n = log[j].n /\ log[i].l = log[j].l) => i = j

\* The requests whose handler has run.
Handled == {r \in Requests : reqs[r].status \in {200, 500}}

\* Without abort every handled request was pushed, once.
EveryPostPushed ==
    /\ ~AbortRequested => \A r \in Handled : reqs[r].sent
    /\ Len(pushed) = Cardinality({r \in Handled : reqs[r].sent})

\* C3: unless abort is called, every valid payload that was POSTed is pushed
\* and every pushed event is eventually delivered exactly once to every
\* listener; at no time has a listener been invoked for anything else, or
\* twice for the same event.
C3_EveryPushedEventDelivered ==
    /\ [](OnlyPushedEvents /\ EveryPostPushed)
    /\ \A r \in Requests :
          (reqs[r].pc = "accepted" /\ Decode(reqs[r].body).ok)
              ~> (AbortRequested \/ reqs[r].sent)
    /\ \A n \in 1..MaxRequests :
          (Len(pushed) >= n) ~> (AbortRequested \/ DeliveredOnce(n))

C3_Witness ==
    /\ ~AbortRequested
    /\ Len(pushed) = MaxRequests
    /\ Cardinality(AllListeners) = 2
    /\ \A n \in 1..MaxRequests : DeliveredOnce(n)
    /\ Len(log) = 2 * MaxRequests

\* C4: a request the handler has run for carries 200 exactly when its event
\* was pushed and 500 exactly when the push failed, the number of 200s is the
\* number of events the channel took, and either way the response body is the
\* encoding of the event decoded from the request body.
C4_StatusMatchesPushAndBodyEchoed ==
    /\ \A r \in Requests :
          reqs[r].pc \in {"handled", "responded"} =>
             /\ reqs[r].status \in {200, 500}
             /\ reqs[r].status = 200 <=> reqs[r].sent
             /\ reqs[r].status = 500 <=> ~reqs[r].sent
             /\ reqs[r].resp = Encode(Decode(reqs[r].body).event)
             /\ Decode(reqs[r].resp) = Decode(reqs[r].body)
    /\ Cardinality({r \in Requests : reqs[r].status = 200}) = Len(pushed)

C4_Witness ==
    \E r, q \in Requests :
        /\ reqs[r].pc = "responded" /\ reqs[r].status = 200
        /\ reqs[q].pc = "responded" /\ reqs[q].status = 500

\* C5: once the receiver is dropped, a step of the handler answers 500 with
\* the decoded event echoed, nothing is added to the channel, and the step
\* leaves the HTTP task as it was, so further requests are still accepted and
\* answered.
C5_PostAfterReceiverDropped ==
    [][ReceiverDropped =>
          /\ queue' = queue
          /\ pushed' = pushed
          /\ \A r \in Requests :
                (reqs[r].pc = "accepted" /\ reqs'[r].pc = "handled") =>
                   /\ reqs'[r].status = 500
                   /\ reqs'[r].resp = Encode(Decode(reqs[r].body).event)
                   /\ http' = http
                   /\ \A q \in Requests \ {r} : reqs'[q] = reqs[q]]_vars

C5_Witness ==
    /\ ReceiverDropped
    /\ http = "serving"
    /\ ~ShutdownSignalled
    /\ \A r \in Requests : reqs[r].pc = "responded" /\ reqs[r].status = 500

\* C6: when abort is called while the loop is inside the dispatch of an event,
\* no listener is ever invoked for an event popped after that one.
C6_NoDispatchAfterInFlightEvent ==
    abortAt > 0 => \A i \in 1..Len(log) : log[i].n <= abortAt

\* A call of install or install_into on the server value.
InstallCallStep == Install \/ InstallIntoCall

\* C7 as stated: the installer writes at most once, and every install or
\* install_into call after the first one is a success that writes nothing.
C7_EveryLaterCallIsNoOp ==
    /\ [](writes <= 1)
    /\ [][(lastInstall.ret # "none" /\ InstallCallStep) =>
             (writes' = writes /\ lastInstall'.ret = "ok")]_vars

\* C7 amended: the installer completes its write at most once, and every
\* install or install_into call made once the flag is set (that is, after a
\* call that succeeded) is a success that writes nothing and keeps the flag.
C7_CallsAfterSuccessAreNoOps ==
    /\ [](writes <= 1 /\ (installed <=> writes = 1))
    /\ [][(installed /\ InstallCallStep) =>
             /\ writes' = writes
             /\ installed'
             /\ lastInstall' = [ret |-> "ok", wrote |-> FALSE]]_vars

C7_Witness ==
    /\ srvPc = "new"
    /\ installed
    /\ writes = 1
    /\ lastInstall = [ret |-> "ok", wrote |-> FALSE]

\* C8: the channel, the HTTP task and the dispatch task exist only once the
\* installation has been done, and when run has returned the installation
\* error there is no channel, no HTTP task and no dispatch task.
C8_InstallBeforeSpawnAndErrorSpawnsNothing ==
    /\ (channel \/ http # "none" \/ loopPc # "none") =>
          (installed /\ writes = 1)
    /\ srvPc = "run_err" =>
          /\ lastInstall.ret = "err"
          /\ ~installed
          /\ ~channel
          /\ http = "none"
          /\ loopPc = "none"

C8_Witness ==
    /\ srvPc = "run_err"
    /\ lastInstall.ret = "err"
    /\ Len(listeners) + Len(async_listeners) = MaxListeners

\* C9: run has returned an error only if its installation failed, which is
\* before the HTTP task exists, so no bind or serve failure is in its result;
\* and once both tasks are spawned run can return its handle whatever the
\* tasks have or have not done.
C9_RunFailsOnlyOnInstallAndDoesNotWait ==
    /\ srvPc = "run_err" => (lastInstall.ret = "err" /\ http = "none")
    /\ http = "failed" => srvPc \in {"run_loop", "run_ret", "running",
                                     "abort_http", "aborted"}
    /\ srvPc = "run_ret" => ENABLED RunReturn

C9_Witness ==
    /\ srvPc = "running"
    /\ http = "failed"
    /\ loopPc = "recv"
    /\ yielded
    /\ popped = <<>>

\* C10: a request whose body is not an Event is never sent and gets no 200 or
\* 500, and the step that disposes of it leaves the channel, what was pushed,
\* the dispatch loop and both listener sequences as they were.
C10_UndecodableBodyTouchesNothing ==
    /\ [](\A r \in Requests :
            (reqs[r].pc # "idle" /\ ~reqs[r].body.json) =>
               (~reqs[r].sent /\ reqs[r].status \in {0, 400}))
    /\ [][\A r \in Requests :
            (reqs[r].pc = "accepted" /\ ~reqs[r].body.json
                /\ reqs'[r] # reqs[r]) =>
               /\ reqs'[r].pc \in {"rejected", "cut"}
               /\ UNCHANGED <<channel, queue, pushed, listeners,
                              async_listeners>>
               /\ UNCHANGED loopVars]_vars

C10_Witness ==
    /\ \E r \in Requests : reqs[r].pc = "rejected" /\ reqs[r].status = 400
    /\ queue # <<>>
    /\ loopPc = "recv"

\* How many times event e occurs in sequence q.
Count(q, e) == Cardinality({i \in 1..Len(q) : q[i] = e})

\* The step in which the handler runs for request r.
HandlerStep(r) == reqs[r].pc = "accepted" /\ reqs'[r].pc = "handled"

\* C11: the handler runs at most once per request and its step is the one
\* enqueue attempt: a successful send appends exactly the decoded event, a
\* failed one leaves the queue alone, no other step ever adds to the queue, and
\* the event of a request is among the pushed events once if its send
\* succeeded and not at all otherwise.
C11_OneEnqueueAttemptPerRequest ==
    /\ [](\A r \in Requests :
            Count(pushed, Snapshot(r)) = IF reqs[r].sent THEN 1 ELSE 0)
    /\ [][/\ \A r \in Requests :
               HandlerStep(r) =>
                  /\ reqs'[r].sent =>
                        queue' = Append(queue, Decode(reqs[r].body).event)
                  /\ ~reqs'[r].sent => queue' = queue
          /\ (\A r \in Requests : ~HandlerStep(r)) =>
                (Len(queue') <= Len(queue) /\ pushed' = pushed)
          /\ \A r \in Requests :
               reqs[r].pc \in {"handled", "responded", "rejected", "cut"} =>
                  reqs'[r].pc \notin {"idle", "accepted"}]_vars

C11_Witness ==
    \E r, q \in Requests :
        /\ reqs[r].pc = "responded" /\ reqs[r].sent
        /\ reqs[q].pc = "handled" /\ ~reqs[q].sent /\ reqs[q].status = 500

\* C12: a send fails exactly when the receiver has been dropped: in every
\* handler step taken while the dispatch loop has not terminated the send
\* succeeds and the queue grows by the event, whatever the queue's length and
\* whether the loop is not yet spawned, waiting in recv or inside a listener.
C12_PushFailsOnlyWhenReceiverDropped ==
    [][\A r \in Requests :
          HandlerStep(r) =>
             /\ reqs'[r].sent <=> ~ReceiverDropped
             /\ ~ReceiverDropped =>
                   /\ Len(queue') = Len(queue) + 1
                   /\ reqs'[r].status = 200]_vars

C12_Witness ==
    /\ loopPc = "sync"
    /\ Len(popped) = 1
    /\ Len(queue) = MaxRequests - 1
    /\ \A r \in Requests : reqs[r].pc = "responded" /\ reqs[r].status = 200

\* The dispatch loop is STOPPED: it ended on end-of-stream or was cancelled.
LoopStopped == loopPc \in {"done", "cancelled"}

\* No connection is accepted once the shutdown signal is given.
NoAcceptAfterShutdown ==
    [][ShutdownSignalled =>
          \A r \in Requests : reqs[r].pc = "idle" => reqs'[r].pc = "idle"]_vars

\* Every listener invocation ends: a synchronous listener returns, and an
\* asynchronous listener's future completes or suspends.
ListenersReturn == WF_vars(SyncReturn) /\ WF_vars(AsyncComplete)

C14_RegistrationAppendsAndLoopKeepsListeners ==
    [][/\ listeners' # listeners =>
             /\ \E x \in 1..MaxListeners : listeners' = Append(listeners, x)
             /\ UNCHANGED <<async_listeners, installed, port>>
       /\ async_listeners' # async_listeners =>
             /\ \E x \in 1..MaxListeners :
                   async_listeners' = Append(async_listeners, x)
             /\ UNCHANGED <<listeners, installed, port>>
       /\ (srvPc # "new" \/ loopPc # "none") =>
             UNCHANGED <<listeners, async_listeners, port>>]_vars

C14_Witness ==
    /\ Len(listeners) = MaxListeners
    /\ async_listeners = <<>>
    /\ installed
    /\ loopPc = "done"
    /\ Len(log) = MaxListeners

\* The place in Expected of the listener the loop is inside.
CurrentSlot ==
    IF loopPc = "sync" THEN loopIdx ELSE Len(listeners) + loopIdx

\* C15: the log of invocations is the events' rounds laid end to end, never
\* interleaved: the i-th invocation belongs to round (i-1) \div K + 1 and to
\* listener (i-1) % K + 1 of the order, K being the number of listeners. Only
\* the last logged invocation can be in progress, and it is the one the loop is
\* inside; when the loop is back at recv (or has ended) every invocation of
\* every popped event has completed, so an event is popped only after the
\* round before it is complete. With one synchronous listener 1, one
\* asynchronous listener 2 and two events popped, the log is
\* E1(sync), E1(async), E2(sync), E2(async).
C15_DispatchIsSequential ==
    LET K == Len(Expected) IN
    /\ \A i \in 1..Len(log) :
          /\ K > 0
          /\ log[i].n = ((i - 1) \div K) + 1
          /\ Called(log[i]) = Expected[((i - 1) % K) + 1]
    /\ loopPc \in {"sync", "async"} =>
          /\ Len(log) = (Len(popped) - 1) * K + CurrentSlot
          /\ Called(log[Len(log)]) = Expected[CurrentSlot]
          /\ log[Len(log)].n = Len(popped)
    /\ loopPc \in {"none", "recv", "done"} => Len(log) = Len(popped) * K
    /\ loopPc = "cancelled" =>
          /\ Len(log) <= Len(popped) * K
          /\ Len(log) + K >= Len(popped) * K
    /\ (listeners = <<1>> /\ async_listeners = <<2>> /\ Len(popped) = 2
            /\ loopPc = "recv") =>
          log = << [n |-> 1, kind |-> "sync", l |-> 1, e |-> popped[1]],
                   [n |-> 1, kind |-> "async", l |-> 2, e |-> popped[1]],
                   [n |-> 2, kind |-> "sync", l |-> 1, e |-> popped[2]],
                   [n |-> 2, kind |-> "async", l |-> 2, e |-> popped[2]] >>

C15_Witness ==
    /\ listeners = <<1>>
    /\ async_listeners = <<2>>
    /\ Len(popped) = 2
    /\ loopPc = "recv"
    /\ Len(log) = 4

\* C16: the loop is cancelled only after abort was called, and it ends by
\* end-of-stream only when no sender exists and every pushed event has been
\* popped and dispatched to every listener with nothing left in the queue; so
\* without abort it is never STOPPED while a sender exists. Once no sender
\* exists and the listeners' calls end, the loop does terminate.
C16_LoopEndsOnlyByEndOfStreamOrAbort ==
    /\ [](/\ loopPc = "cancelled" => AbortRequested
          /\ (LoopStopped /\ ~AbortRequested) => ~SenderExists
          /\ loopPc = "done" =>
                /\ ~SenderExists
                /\ queue = <<>>
                /\ popped = pushed
                /\ Len(log) = Len(pushed) * Len(Expected)
                /\ \A n \in 1..Len(pushed) : DeliveredOnce(n))
    /\ [][loopPc' = "done" /\ loopPc # "done" =>
             loopPc = "recv" /\ queue = <<>> /\ ~SenderExists]_vars
    /\ ListenersReturn => ((channel /\ ~SenderExists) ~> LoopStopped)

C16_Witness ==
    /\ loopPc = "done"
    /\ ~AbortRequested
    /\ http = "failed"
    /\ Len(popped) = MaxRequests
    /\ Len(listeners) + Len(async_listeners) >= 1

\* How often listener l has been invoked for the n-th event.
Invocations(n, l) ==
    Cardinality({i \in 1..Len(log) : log[i].n = n /\ log[i].l = l})

\* C17: in every state, also after abort, no listener has been invoked twice
\* for one event and none for an event that was not popped; the listeners
\* invoked for the event in flight (the last one popped) are an initial part of
\* the order; and every event popped before it has been delivered to every
\* listener.
C17_AtMostOnceAndPrefixShaped ==
    /\ \A n \in 1..Len(pushed) : \A l \in AllListeners : Invocations(n, l) <= 1
    /\ \A i \in 1..Len(log) : log[i].n \in 1..Len(popped)
    /\ Len(popped) > 0 =>
          IsPrefix([i \in 1..Len(LogOf(Len(popped))) |->
                       Called(LogOf(Len(popped))[i])], Expected)
    /\ \A n \in 1..Len(popped) :
          n < Len(popped) => \A l \in AllListeners : Invocations(n, l) = 1

C17_Witness ==
    /\ loopPc = "cancelled"
    /\ Len(popped) = 2
    /\ Len(LogOf(2)) > 0
    /\ Len(LogOf(2)) < Len(Expected)

\* The place of event e in sequence q, 0 when it is not there.
IndexOf(q, e) ==
    IF \E i \in 1..Len(q) : q[i] = e
    THEN CHOOSE i \in 1..Len(q) : q[i] = e
    ELSE 0

\* C18: a request's event is pushed only after its body was decoded and before
\* its response is written: a request not yet handled has pushed nothing, a
\* sent event is the decoded body, and a 200 response that the client has
\* received means the event is among the pushed ones. So when request q was
\* accepted after the client had received the 200 of request r, the event of r
\* is pushed before, popped before and dispatched before the event of q.
C18_PushBeforeResponse ==
    /\ \A r \in Requests :
          /\ reqs[r].pc \in {"idle", "accepted", "rejected"} =>
                Count(pushed, Snapshot(r)) = 0
          /\ reqs[r].sent =>
                /\ Decode(reqs[r].body).ok
                /\ reqs[r].event = Decode(reqs[r].body).event
          /\ r \in Answered200(reqs) => Count(pushed, reqs[r].event) = 1
    /\ \A q \in Requests : \A r \in reqs[q].after :
          LET e1 == reqs[r].event
              e2 == Snapshot(q)
          IN /\ IndexOf(pushed, e1) > 0
             /\ IndexOf(pushed, e2) > 0 =>
                   IndexOf(pushed, e1) < IndexOf(pushed, e2)
             /\ IndexOf(popped, e2) > 0 =>
                   /\ IndexOf(popped, e1) > 0
                   /\ IndexOf(popped, e1) < IndexOf(popped, e2)
             /\ \A i, j \in 1..Len(log) :
                   (log[i].e = e1 /\ log[j].e = e2) => i < j

C18_Witness ==
    \E q, r \in Requests :
        /\ r \in reqs[q].after
        /\ reqs[q].pc = "responded"
        /\ reqs[q].status = 200
        /\ loopPc = "recv"
        /\ Len(popped) = 2
        /\ Len(log) >= 2

\* C19: every invocation logged for the n-th event received a value equal to
\* the n-th pushed event, and the event the loop holds while it is inside a
\* listener is still that pushed event, whether or not the listeners that ran
\* before overwrote the clones they were given.
C19_EveryListenerGetsThePushedEvent ==
    /\ \A i \in 1..Len(log) :
          /\ log[i].n \in 1..Len(pushed)
          /\ log[i].e = pushed[log[i].n]
          /\ log[i].e # NoEvent
    /\ loopPc \in {"sync", "async"} => cur = pushed[Len(popped)]

C19_Witness ==
    /\ Len(listeners) = 1
    /\ Len(async_listeners) = 1
    /\ loopPc = "async"
    /\ Len(popped) = 2
    /\ log[Len(log)].e = pushed[2]

\* A step in which install, install_into or run's install runs with the flag
\* not yet set.
InstallerStep == ~installed /\ (Install \/ InstallIntoCall \/ RunInstall)

\* C20: the flag becomes true only in a call whose installer succeeded and
\* wrote, and once true it stays true; a call that fails returns the error and
\* leaves the flag false; and with the flag false every install, install_into
\* or run invokes the installer again: the call either fails or writes, and
\* after a failed call a next install, install_into or run that writes is
\* possible.
C20_FlagFollowsInstallerSuccess ==
    /\ [][/\ (installed' /\ ~installed) =>
                /\ lastInstall' = [ret |-> "ok", wrote |-> TRUE]
                /\ writes' = writes + 1
          /\ installed => installed'
          /\ InstallerStep =>
                /\ lastInstall'.ret = "err" \/ lastInstall'.wrote
                /\ lastInstall'.ret = "err" =>
                      (~installed' /\ writes' = writes)
                /\ (lastInstall'.ret = "err" /\ RunInstall) =>
                      srvPc' = "run_err"]_vars
    /\ []((srvPc = "new" /\ ~installed) =>
             /\ ENABLED (Install /\ lastInstall'.wrote /\ installed')
             /\ ENABLED (InstallIntoCall /\ lastInstall'.wrote /\ installed')
             /\ ENABLED (RunInstall /\ lastInstall'.wrote /\ installed'))

C20_Witness ==
    /\ srvPc = "new"
    /\ lastInstall = [ret |-> "err", wrote |-> FALSE]
    /\ ~installed
    /\ writes = 0
    /\ Len(listeners) = 1

====
